---- MODULE Spec2Model ----
(***************************************************************************)
(* A model of qinfer/perf_testing.py: the multi-trial harness              *)
(* perf_test_multiple with its progress notifier WebProgressThread, the    *)
(* single-trial loop perf_test, and the serial apply handle apply_serial.  *)
(*                                                                         *)
(* Three specifications share the variables:                               *)
(*   Spec       perf_test_multiple running against WebProgressThread       *)
(*   TrialSpec  one call of perf_test                                      *)
(*   ApplySpec  one apply_serial object: construction and get()            *)
(* Python threads run under the interpreter lock, so every attribute read  *)
(* or write is one atomic step and steps of the two threads interleave.    *)
(***************************************************************************)
EXTENDS Integers, Sequences, FiniteSets, TLC

\* ---------------------------------------------------------------- bounds
MaxTrials == 2
MaxExp == 2
MaxFail == 1
MaxRows == 2
MaxArgs == 1
MaxGets == 2

\* ------------------------------------------------------------- constants
\* perf_testing.py:113-118
PERFORMANCE_DTYPE == <<"loss", "resample_count", "elapsed_time", "outcome">>

\* model.expparams_dtype: the field names a model declares for its experiment
\* parameter records (the harness reads only the names, line 182).
ExpparamsDtypes == {<< >>, <<"t">>, <<"t", "n_meas">>}

Applies == {"apply_serial", "engine"}

\* A name that is not bound (a local never assigned, a missing module global).
Unbound == "unbound"
None == "None"
Obj == "object"

VARIABLES
    \* ---- perf_test_multiple: arguments
    n_trials, n_exp, expparams_dtype, apply, tskmon_client,
    \* ---- perf_test_multiple: locals and position
    hpc, task, thread, wake_event, results, idx, performance, herr,
    \* ---- WebProgressThread: attributes, the Event's flag, position in run()
    done, dirty, progress, wake_flag, tpc,
    \* ---- the progress-reporting collaborator
    task_state, updates, n_fail,
    \* ---- history of the harness: get() calls made, results retrieved
    n_get, retrieved,
    \* ---- perf_test (TrialSpec)
    trial,
    \* ---- apply_serial (ApplySpec): what the name fn is bound to in the module's
    \* globals, and the object under test
    module_fn, handle,
    \* ---- perf_test calls running side by side in the workers of a parallel
    \* apply (ParSpec): the frames and the objects they created
    pool

harness_vars == <<n_trials, n_exp, expparams_dtype, apply, tskmon_client,
                  hpc, task, thread, wake_event, results, idx, performance, herr,
                  n_get, retrieved>>
thread_vars == <<done, dirty, progress, wake_flag, tpc>>
client_vars == <<task_state, updates, n_fail>>
vars == <<harness_vars, thread_vars, client_vars, trial, module_fn, handle, pool>>

\* No perf_test call is running in a worker.
NoPool == [runs |-> << >>, updaters |-> << >>, heuristics |-> << >>,
           arrays |-> << >>]

\* ------------------------------------------------------------ record arrays
Range(s) == {s[i] : i \in DOMAIN s}

\* np.zeros((n,), dtype): n rows, every field 0.
ZeroRow(dtype) == [f \in Range(dtype) |-> 0]
Zeros(n, dtype) == [e \in 1..n |-> ZeroRow(dtype)]

\* The dtype of the array perf_test allocates and returns (line 164).
perf_test_dtype(edt) == PERFORMANCE_DTYPE \o edt

\* The dtype of the array perf_test_multiple allocates (line 222).
perf_test_multiple_dtype(edt) == PERFORMANCE_DTYPE

\* dst[...] = src between record arrays of different dtypes: numpy copies field
\* by field name; a destination field the source lacks is 0, a source field the
\* destination lacks is not stored.
AssignRows(dtype, src) ==
    [e \in DOMAIN src |->
        [f \in Range(dtype) |-> IF f \in DOMAIN src[e] THEN src[e][f] ELSE 0]]

\* What the handle of trial h returns from get() when the trial succeeds: the
\* record array of perf_test. The cells are tagged with trial and experiment so
\* that rows of different trials differ.
TrialResult(h, n, edt) ==
    [e \in 1..n |-> [f \in Range(perf_test_dtype(edt)) |-> 10 * (h + 1) + e]]

\* ------------------------------------------------------------ apply_serial
\* apply_serial.__init__(self, *args, **kwargs), lines 195-198. The body reads
\* the name fn, which is no parameter: it is looked up in the module's globals.
\* The function the caller passes is args[1].
apply_serial_init(modfn, args) ==
    IF modfn = Unbound
    THEN [raised |-> "NameError"]
    ELSE [raised |-> None, _fn |-> modfn, _args |-> args,
          _done |-> FALSE, _value |-> None]

\* apply(trial_fn), line 244: the default capability is the class apply_serial;
\* any other capability is an engine that hands back a handle for the trial.
Dispatch(cap, modfn, h) ==
    IF cap = "apply_serial"
    THEN apply_serial_init(modfn, <<"trial_fn">>)
    ELSE [raised |-> None, engine_trial |-> h]

\* ------------------------------------------------------- perf_test_multiple
\* Lines 217-222: the state on entry, before the tskmon block.
HarnessInit ==
    /\ n_trials \in 0..MaxTrials
    /\ n_exp \in 1..MaxExp
    /\ expparams_dtype \in ExpparamsDtypes
    /\ apply \in Applies
    /\ tskmon_client \in {None, Obj}
    /\ hpc = "tskmon"
    /\ task = Unbound /\ thread = Unbound /\ wake_event = Unbound
    /\ results = << >>
    /\ idx = 0
    /\ performance = [i \in 0..(n_trials - 1) |->
                         Zeros(n_exp, perf_test_multiple_dtype(expparams_dtype))]
    /\ herr = None
    /\ n_get = 0 /\ retrieved = 0

\* WebProgressThread's class attributes (lines 73-75); no thread runs yet.
ThreadInit ==
    /\ done = FALSE /\ dirty = FALSE /\ progress = 0
    /\ wake_flag = FALSE
    /\ tpc = "unstarted"

ClientInit ==
    /\ task_state = "none" /\ updates = << >> /\ n_fail = 0

\* Lines 224-231 and 236-240: without a client the block is skipped and task,
\* thread and wake_event stay unassigned; new_task may raise, which the except
\* clause turns into task = thread = wake_event = None.
H_NewTask ==
    /\ hpc = "tskmon"
    /\ IF tskmon_client = None
       THEN /\ hpc' = "dispatch"
            /\ UNCHANGED <<task, thread, wake_event, task_state>>
       ELSE \E ok \in BOOLEAN :
              IF ok
              THEN /\ task' = Obj /\ task_state' = "created"
                   /\ hpc' = "start"
                   /\ UNCHANGED <<thread, wake_event>>
              ELSE /\ task' = None /\ thread' = None /\ wake_event' = None
                   /\ hpc' = "dispatch"
                   /\ UNCHANGED task_state
    /\ UNCHANGED <<n_trials, n_exp, expparams_dtype, apply, tskmon_client,
                   results, idx, performance, herr, n_get, retrieved>>
    /\ UNCHANGED <<thread_vars, updates, n_fail, trial, module_fn, handle, pool>>

\* Lines 232-234 and 236-240: the event and the thread are created and the
\* thread is started; a failing start() is caught like a failing new_task.
H_StartThread ==
    /\ hpc = "start"
    /\ \E ok \in BOOLEAN :
         IF ok
         THEN /\ wake_event' = Obj /\ thread' = Obj
              /\ tpc' = "check_done"
              /\ UNCHANGED task
         ELSE /\ task' = None /\ thread' = None /\ wake_event' = None
              /\ UNCHANGED tpc
    /\ hpc' = "dispatch"
    /\ UNCHANGED <<n_trials, n_exp, expparams_dtype, apply, tskmon_client,
                   results, idx, performance, herr, n_get, retrieved>>
    /\ UNCHANGED <<done, dirty, progress, wake_flag>>
    /\ UNCHANGED <<client_vars, trial, module_fn, handle, pool>>

\* Line 244: one apply(trial_fn) per trial; an exception leaves the function.
H_Apply ==
    /\ hpc = "dispatch"
    /\ IF Len(results) = n_trials
       THEN /\ hpc' = "collect"
            /\ UNCHANGED <<results, herr>>
       ELSE LET r == Dispatch(apply, module_fn, Len(results)) IN
            IF r.raised # None
            THEN /\ hpc' = "raised" /\ herr' = r.raised
                 /\ UNCHANGED results
            ELSE /\ results' = Append(results, r)
                 /\ UNCHANGED <<hpc, herr>>
    /\ UNCHANGED <<n_trials, n_exp, expparams_dtype, apply, tskmon_client,
                   task, thread, wake_event, idx, performance, n_get, retrieved>>
    /\ UNCHANGED <<thread_vars, client_vars, trial, module_fn, handle, pool>>

\* Collecting from the end of the list of handles.
HandleAt_reversed(rs, i) == rs[Len(rs) - i]

\* Line 246: enumerate(results) pairs idx with the handle dispatched idx-th.
HandleAt(rs, i) == rs[i + 1]

\* Lines 246-247: result.get() of handle idx; a failed trial raises here and
\* the exception leaves the function; otherwise the rows are stored.
H_Get ==
    /\ hpc = "collect"
    /\ IF idx = n_trials
       THEN /\ hpc' = "teardown"
            /\ UNCHANGED <<performance, herr, n_get, retrieved>>
       ELSE /\ n_get' = n_get + 1
            /\ \E ok \in BOOLEAN :
                 IF ok
                 THEN /\ performance' =
                           [performance EXCEPT ![idx] =
                              AssignRows(perf_test_multiple_dtype(expparams_dtype),
                                 TrialResult(HandleAt(results, idx).engine_trial,
                                             n_exp, expparams_dtype))]
                      /\ retrieved' = retrieved + 1
                      /\ hpc' = "check_thread"
                      /\ UNCHANGED herr
                 ELSE /\ hpc' = "raised" /\ herr' = "TrialError"
                      /\ UNCHANGED <<performance, retrieved>>
    /\ UNCHANGED <<n_trials, n_exp, expparams_dtype, apply, tskmon_client,
                   task, thread, wake_event, results, idx>>
    /\ UNCHANGED <<thread_vars, client_vars, trial, module_fn, handle, pool>>

\* Line 248: reads the local thread, which is unassigned when no client was
\* given (UnboundLocalError, a NameError).
H_CheckThread ==
    /\ hpc = "check_thread"
    /\ IF thread = Unbound
       THEN /\ hpc' = "raised" /\ herr' = "UnboundLocalError"
            /\ UNCHANGED idx
       ELSE IF thread = None
       THEN /\ hpc' = "collect" /\ idx' = idx + 1
            /\ UNCHANGED herr
       ELSE /\ hpc' = "set_progress"
            /\ UNCHANGED <<idx, herr>>
    /\ UNCHANGED <<n_trials, n_exp, expparams_dtype, apply, tskmon_client,
                   task, thread, wake_event, results, performance, n_get, retrieved>>
    /\ UNCHANGED <<thread_vars, client_vars, trial, module_fn, handle, pool>>

\* An off-by-one of line 249: the loop index itself is posted.
PostedProgress_index(i) == i

\* The completed-trial count posted after trial i was retrieved (line 249).
PostedProgress(i) == i + 1

\* Line 249.
H_SetProgress ==
    /\ hpc = "set_progress"
    /\ progress' = PostedProgress(idx)
    /\ hpc' = "set_dirty"
    /\ UNCHANGED <<n_trials, n_exp, expparams_dtype, apply, tskmon_client,
                   task, thread, wake_event, results, idx, performance, herr,
                   n_get, retrieved>>
    /\ UNCHANGED <<done, dirty, wake_flag, tpc>>
    /\ UNCHANGED <<client_vars, trial, module_fn, handle, pool>>

\* Line 250.
H_SetDirty ==
    /\ hpc = "set_dirty"
    /\ dirty' = TRUE
    /\ hpc' = "wake"
    /\ UNCHANGED <<n_trials, n_exp, expparams_dtype, apply, tskmon_client,
                   task, thread, wake_event, results, idx, performance, herr,
                   n_get, retrieved>>
    /\ UNCHANGED <<done, progress, wake_flag, tpc>>
    /\ UNCHANGED <<client_vars, trial, module_fn, handle, pool>>

\* Line 251, then the next iteration of the for loop.
H_Wake ==
    /\ hpc = "wake"
    /\ wake_flag' = TRUE
    /\ idx' = idx + 1
    /\ hpc' = "collect"
    /\ UNCHANGED <<n_trials, n_exp, expparams_dtype, apply, tskmon_client,
                   task, thread, wake_event, results, performance, herr,
                   n_get, retrieved>>
    /\ UNCHANGED <<done, dirty, progress, tpc>>
    /\ UNCHANGED <<client_vars, trial, module_fn, handle, pool>>

\* Line 253: reads the local task, unassigned when no client was given.
H_CheckTask ==
    /\ hpc = "teardown"
    /\ IF task = Unbound
       THEN /\ hpc' = "raised" /\ herr' = "UnboundLocalError"
       ELSE IF task = None
       THEN /\ hpc' = "return" /\ UNCHANGED herr
       ELSE /\ hpc' = "set_done" /\ UNCHANGED herr
    /\ UNCHANGED <<n_trials, n_exp, expparams_dtype, apply, tskmon_client,
                   task, thread, wake_event, results, idx, performance,
                   n_get, retrieved>>
    /\ UNCHANGED <<thread_vars, client_vars, trial, module_fn, handle, pool>>

\* Line 255.
H_SetDone ==
    /\ hpc = "set_done"
    /\ done' = TRUE
    /\ hpc' = "wake_done"
    /\ UNCHANGED <<n_trials, n_exp, expparams_dtype, apply, tskmon_client,
                   task, thread, wake_event, results, idx, performance, herr,
                   n_get, retrieved>>
    /\ UNCHANGED <<dirty, progress, wake_flag, tpc>>
    /\ UNCHANGED <<client_vars, trial, module_fn, handle, pool>>

\* Line 256.
H_WakeDone ==
    /\ hpc = "wake_done"
    /\ wake_flag' = TRUE
    /\ hpc' = "delete"
    /\ UNCHANGED <<n_trials, n_exp, expparams_dtype, apply, tskmon_client,
                   task, thread, wake_event, results, idx, performance, herr,
                   n_get, retrieved>>
    /\ UNCHANGED <<done, dirty, progress, tpc>>
    /\ UNCHANGED <<client_vars, trial, module_fn, handle, pool>>

\* Teardown without the try/except: the client's exception leaves the function.
DeleteFailed_uncaught == [hpc |-> "raised", herr |-> "ClientError"]

\* What an exception raised by task.delete() does to the harness: the bare
\* except of lines 258-259 swallows it.
DeleteFailed == [hpc |-> "return", herr |-> None]

\* Lines 257-259: task.delete(); any exception is caught and reported.
H_Delete ==
    /\ hpc = "delete"
    /\ \E ok \in BOOLEAN :
         IF ok
         THEN /\ task_state' = "deleted"
              /\ hpc' = "return" /\ UNCHANGED herr
         ELSE /\ UNCHANGED task_state
              /\ hpc' = DeleteFailed.hpc /\ herr' = DeleteFailed.herr
    /\ UNCHANGED <<n_trials, n_exp, expparams_dtype, apply, tskmon_client,
                   task, thread, wake_event, results, idx, performance,
                   n_get, retrieved>>
    /\ UNCHANGED <<thread_vars, updates, n_fail, trial, module_fn, handle, pool>>

\* Line 261.
H_Return ==
    /\ hpc = "return"
    /\ hpc' = "returned"
    /\ UNCHANGED <<n_trials, n_exp, expparams_dtype, apply, tskmon_client,
                   task, thread, wake_event, results, idx, performance, herr,
                   n_get, retrieved>>
    /\ UNCHANGED <<thread_vars, client_vars, trial, module_fn, handle, pool>>

\* --------------------------------------------------------- WebProgressThread
\* Line 84.
T_CheckDone ==
    /\ tpc = "check_done"
    /\ tpc' = IF done THEN "returned" ELSE "check_dirty"
    /\ UNCHANGED <<harness_vars, done, dirty, progress, wake_flag>>
    /\ UNCHANGED <<client_vars, trial, module_fn, handle, pool>>

\* Line 86.
T_CheckDirty ==
    /\ tpc = "check_dirty"
    /\ tpc' = IF dirty THEN "update" ELSE "wait"
    /\ UNCHANGED <<harness_vars, done, dirty, progress, wake_flag>>
    /\ UNCHANGED <<client_vars, trial, module_fn, handle, pool>>

\* Where run() continues when task.update raises: the except clause of lines
\* 91-92 prints the exception and falls through to the wait of line 93.
UpdateFailed == "wait"

\* Line 88: task.update(progress=self.progress). The call may raise (at most
\* MaxFail times in a run of the model).
T_Update ==
    /\ tpc = "update"
    /\ updates' = Append(updates, progress)
    /\ \E ok \in BOOLEAN :
         IF ok
         THEN /\ tpc' = "set_clean"
              /\ UNCHANGED n_fail
         ELSE /\ n_fail < MaxFail
              /\ n_fail' = n_fail + 1
              /\ tpc' = UpdateFailed
    /\ UNCHANGED <<harness_vars, done, dirty, progress, wake_flag>>
    /\ UNCHANGED <<task_state, trial, module_fn, handle, pool>>

\* Line 89.
T_SetClean ==
    /\ tpc = "set_clean"
    /\ dirty' = FALSE
    /\ tpc' = "clear"
    /\ UNCHANGED <<harness_vars, done, progress, wake_flag>>
    /\ UNCHANGED <<client_vars, trial, module_fn, handle, pool>>

\* Line 90.
T_Clear ==
    /\ tpc = "clear"
    /\ wake_flag' = FALSE
    /\ tpc' = "wait"
    /\ UNCHANGED <<harness_vars, done, dirty, progress>>
    /\ UNCHANGED <<client_vars, trial, module_fn, handle, pool>>

\* Line 93: Event.wait() returns once the flag is set and leaves it set.
T_Wait ==
    /\ tpc = "wait"
    /\ wake_flag
    /\ tpc' = "check_done"
    /\ UNCHANGED <<harness_vars, done, dirty, progress, wake_flag>>
    /\ UNCHANGED <<client_vars, trial, module_fn, handle, pool>>

Harness ==
    \/ H_NewTask \/ H_StartThread \/ H_Apply \/ H_Get \/ H_CheckThread
    \/ H_SetProgress \/ H_SetDirty \/ H_Wake
    \/ H_CheckTask \/ H_SetDone \/ H_WakeDone \/ H_Delete \/ H_Return

Notifier ==
    \/ T_CheckDone \/ T_CheckDirty \/ T_Update \/ T_SetClean \/ T_Clear \/ T_Wait

\* ------------------------------------------------------------ specification
\* perf_test_multiple and its notifier; the module is as shipped: it binds no
\* global named fn.
Init ==
    /\ HarnessInit /\ ThreadInit /\ ClientInit
    /\ trial = [pc |-> "none"]
    /\ module_fn = Unbound
    /\ handle = [pc |-> "none"]
    /\ pool = NoPool

Next == Harness \/ Notifier

Spec == Init /\ [][Next]_vars

\* ================================================================ perf_test
\* Small value sets for what the collaborators hand back.
Vals == {0, 1}
Outcomes == {0, 1}
ExpVals == {1, 2}

\* The logical time an update takes: one tick, and one more when it resamples.
UpdateTicks(r) == 1 + r

\* A parameter vector of a model with p parameters.
Vecs(p) == [1..p -> Vals]

\* model.Q, the loss weight matrix: n_modelparams by n_modelparams.
Qs == { <<<<1>>>>, <<<<2>>>>,
        <<<<1, 0>>, <<0, 1>>>>, <<<<1, 1>>, <<1, 2>>>> }

\* The true_mps argument: None (written << >>), or an array with one row per
\* true parameter set.
TrueMpsArgs(p) == {<< >>} \cup UNION {[1..k -> Vecs(p)] : k \in 1..MaxRows}

RECURSIVE SumTo(_, _)
SumTo(f, n) == IF n = 0 THEN 0 ELSE f[n] + SumTo(f, n - 1)

\* updater.est_mean() - true_mps (line 176): the mean, of shape (p,), is
\* broadcast against every row of true_mps.
Delta(mean, mps) ==
    [r \in DOMAIN mps |-> [i \in DOMAIN mean |-> mean[i] - mps[r][i]]]

\* np.dot(delta**2, model.Q) (line 179): the elementwise squares times Q, one
\* row per row of delta and one column per column of Q.
LossArray(delta, Q) ==
    [r \in DOMAIN delta |->
        [j \in DOMAIN Q |->
            SumTo([i \in DOMAIN Q |-> delta[r][i] * delta[r][i] * Q[i][j]], Len(Q))]]

\* Number of elements of a two-dimensional array.
Size2(a) == IF Len(a) = 0 THEN 0 ELSE Len(a) * Len(a[1])

\* The first experiment index of the loop of line 169.
FirstExp == 0

\* perf_test on entry (line 154). The record trial holds its arguments, locals
\* and position; calls is the history of the calls it made on its collaborators
\* and clock is the logical time time.time() reads.
TrialEntry(q, mps) ==
    [pc |-> "defaults", Q |-> q,
     true_mps_given |-> mps # << >>, true_mps |-> mps,
     idx_exp |-> FirstExp, expparams |-> None, datum |-> None, delta |-> None,
     performance |-> None,
     updater |-> None,
     t |-> None, clock |-> 0,
     calls |-> << >>, err |-> None]

\* Lines 155-162: the defaults; true parameters not supplied are one sample of
\* true_prior, an array of one row. Nothing checks the number of rows.
P_Defaults ==
    /\ trial.pc = "defaults"
    /\ IF ~trial.true_mps_given
       THEN \E v \in Vecs(Len(trial.Q)) :
               trial' = [trial EXCEPT !.true_mps = <<v>>, !.pc = "alloc"]
       ELSE trial' = [trial EXCEPT !.pc = "alloc"]
    /\ UNCHANGED <<harness_vars, thread_vars, client_vars, module_fn, handle, pool>>

\* Lines 164-167: the record array, one new updater and its heuristic.
P_Alloc ==
    /\ trial.pc = "alloc"
    /\ \E m \in Vecs(Len(trial.Q)) :
         trial' = [trial EXCEPT
            !.performance = Zeros(n_exp, perf_test_dtype(expparams_dtype)),
            !.updater = [n_updates |-> 0, resample_count |-> 0, mean |-> m],
            !.pc = "heuristic"]
    /\ UNCHANGED <<harness_vars, thread_vars, client_vars, module_fn, handle, pool>>

\* Lines 169-170 and 185: the loop test, then expparams = heuristic(); after
\* n_exp iterations the function returns performance.
P_Heuristic ==
    /\ trial.pc = "heuristic"
    /\ IF trial.idx_exp >= n_exp
       THEN trial' = [trial EXCEPT !.pc = "returned"]
       ELSE \E v \in ExpVals :
              LET ep == [f \in Range(expparams_dtype) |-> v] IN
              trial' = [trial EXCEPT
                 !.expparams = ep,
                 !.calls = Append(@, [op |-> "heuristic", i |-> trial.idx_exp,
                                      ret |-> ep]),
                 !.pc = "simulate"]
    /\ UNCHANGED <<harness_vars, thread_vars, client_vars, module_fn, handle, pool>>

\* The simulation run on the updater's current estimate instead of the truth.
SimulateArgs_estimate(tr) ==
    [mps |-> <<tr.updater.mean>>, expparams |-> tr.expparams]

\* The arguments of the simulate_experiment call of line 171.
SimulateArgs(tr) == [mps |-> tr.true_mps, expparams |-> tr.expparams]

\* Line 171: one outcome per row of the true parameters; the call takes one
\* tick, before the timing block is entered.
P_Simulate ==
    /\ trial.pc = "simulate"
    /\ LET args == SimulateArgs(trial) IN
       \E d \in [DOMAIN args.mps -> Outcomes] :
         trial' = [trial EXCEPT
            !.datum = d,
            !.clock = @ + 1,
            !.calls = Append(@, [op |-> "simulate", i |-> trial.idx_exp,
                                 mps |-> args.mps,
                                 expparams |-> args.expparams, ret |-> d]),
            !.pc = "timer"]
    /\ UNCHANGED <<harness_vars, thread_vars, client_vars, module_fn, handle, pool>>

\* Lines 173 and 107, 58-59: entering the timing block creates the Timer.
P_TimerStart ==
    /\ trial.pc = "timer"
    /\ trial' = [trial EXCEPT !.t = [_tic |-> trial.clock, _toc |-> << >>],
                              !.pc = "update"]
    /\ UNCHANGED <<harness_vars, thread_vars, client_vars, module_fn, handle, pool>>

\* The update call handed the complement of every simulated outcome.
UpdateArgs_flipped(tr) ==
    [datum |-> [r \in DOMAIN tr.datum |-> 1 - tr.datum[r]],
     expparams |-> tr.expparams]

\* The arguments of the update call of line 174.
UpdateArgs(tr) == [datum |-> tr.datum, expparams |-> tr.expparams]

\* SMCUpdater.update as the harness sees it: one more update, resample_count
\* raised by one per resample the update triggered (r), a new mean (m).
UpdaterStep(u, r, m) ==
    [n_updates |-> u.n_updates + 1,
     resample_count |-> u.resample_count + r,
     mean |-> m]

\* Line 174: updater.update(datum, expparams). The updater takes some time,
\* may resample (r), moves its mean (m), or raises (no support for the datum);
\* the exception leaves perf_test and the timing block without stopping the
\* timer. The history keeps, with the call, the resamples it triggered and
\* the time it took.
P_Update ==
    /\ trial.pc = "update"
    /\ LET args == UpdateArgs(trial) IN
       \E ok \in BOOLEAN, r \in {0, 1}, m \in Vecs(Len(trial.Q)) :
         LET call == [op |-> "update", i |-> trial.idx_exp,
                      datum |-> args.datum, expparams |-> args.expparams,
                      resamples |-> r, took |-> UpdateTicks(r)] IN
            IF ok
            THEN trial' = [trial EXCEPT
                   !.updater = UpdaterStep(@, r, m),
                   !.clock = @ + UpdateTicks(r),
                   !.calls = Append(@, call),
                   !.pc = "stop"]
            ELSE /\ r = 0 /\ m = trial.updater.mean
                 /\ trial' = [trial EXCEPT
                       !.clock = @ + UpdateTicks(r),
                       !.calls = Append(@, call),
                       !.err = "UpdaterError",
                       !.pc = "raised"]
    /\ UNCHANGED <<harness_vars, thread_vars, client_vars, module_fn, handle, pool>>

\* Lines 109 and 61-62: leaving the timing block stops the timer.
P_TimerStop ==
    /\ trial.pc = "stop"
    /\ trial' = [trial EXCEPT !.t._toc = <<trial.clock>>, !.pc = "est_mean"]
    /\ UNCHANGED <<harness_vars, thread_vars, client_vars, module_fn, handle, pool>>

\* Line 176: delta = updater.est_mean() - true_mps; the call takes one tick.
P_EstMean ==
    /\ trial.pc = "est_mean"
    /\ trial' = [trial EXCEPT
          !.delta = Delta(trial.updater.mean, trial.true_mps),
          !.clock = @ + 1,
          !.pc = "store"]
    /\ UNCHANGED <<harness_vars, thread_vars, client_vars, module_fn, handle, pool>>

\* A delta_t that ignores the stop time and always reads the clock.
delta_t_running(t, now) == now - t._tic

\* Timer.delta_t, lines 64-69; _toc is << >> while it is None.
delta_t(t, now) == (IF t._toc # << >> THEN t._toc[1] ELSE now) - t._tic

\* Every iteration writing the first row.
StoreIndex_first(tr) == 1

\* The row iteration idx_exp writes (rows are counted from 1 here).
StoreIndex(tr) == tr.idx_exp + 1

\* The number of updates stored in place of the resample count.
StoredResampleCount_updates(tr) == tr.updater.n_updates

\* The value line 180 stores.
StoredResampleCount(tr) == tr.updater.resample_count

\* Lines 178-183: the fields of row idx_exp are written one by one. A field
\* takes one number: numpy raises ValueError when the value has more than one
\* element, and the fields written before that line stay written.
P_Store ==
    /\ trial.pc = "store"
    /\ LET i == StoreIndex(trial)
           loss == LossArray(trial.delta, trial.Q)
           row0 == trial.performance[i]
           row1 == [row0 EXCEPT !["elapsed_time"] = delta_t(trial.t, trial.clock)]
           row2 == [row1 EXCEPT !["loss"] = loss[1][1]]
           row3 == [row2 EXCEPT !["resample_count"] = StoredResampleCount(trial)]
           row4 == [row3 EXCEPT !["outcome"] = trial.datum[1]]
           row5 == [f \in DOMAIN row4 |->
                      IF f \in DOMAIN trial.expparams
                      THEN trial.expparams[f] ELSE row4[f]]
       IN IF Size2(loss) # 1
          THEN trial' = [trial EXCEPT !.performance[i] = row1,
                                      !.err = "ValueError", !.pc = "raised"]
          ELSE IF Len(trial.datum) # 1
          THEN trial' = [trial EXCEPT !.performance[i] = row3,
                                      !.err = "ValueError", !.pc = "raised"]
          ELSE trial' = [trial EXCEPT
                  !.performance[i] = row5,
                  !.calls = Append(@, [op |-> "write", i |-> trial.idx_exp]),
                  !.idx_exp = @ + 1,
                  !.pc = "heuristic"]
    /\ UNCHANGED <<harness_vars, thread_vars, client_vars, module_fn, handle, pool>>

PerfTest ==
    \/ P_Defaults \/ P_Alloc \/ P_Heuristic \/ P_Simulate \/ P_TimerStart
    \/ P_Update \/ P_TimerStop \/ P_EstMean \/ P_Store

\* The harness is not running: its variables only carry perf_test's arguments
\* n_exp and model.expparams_dtype.
HarnessIdle ==
    /\ n_trials = 0 /\ apply = "engine" /\ tskmon_client = None
    /\ hpc = "idle"
    /\ task = Unbound /\ thread = Unbound /\ wake_event = Unbound
    /\ results = << >> /\ idx = 0 /\ performance = << >> /\ herr = None
    /\ n_get = 0 /\ retrieved = 0

\* One call of perf_test.
TrialInit ==
    /\ n_exp \in 0..MaxExp
    /\ expparams_dtype \in ExpparamsDtypes
    /\ HarnessIdle /\ ThreadInit /\ ClientInit
    /\ \E q \in Qs : \E mps \in TrueMpsArgs(Len(q)) : trial = TrialEntry(q, mps)
    /\ module_fn = Unbound
    /\ handle = [pc |-> "none"]
    /\ pool = NoPool

TrialNext == PerfTest

TrialSpec == TrialInit /\ [][TrialNext]_vars

\* ============================================================= apply_serial
\* Functions a caller may pass, and the values it may pass along with them.
Fns == {"f", "g", "h"}
ArgVals == {"a", "b"}
ArgLists == UNION {[1..k -> ArgVals] : k \in 0..MaxArgs}

\* The value of fn(*args): the application itself, so that applications of
\* different functions or to different arguments differ.
App(fn, args) == [fn |-> fn, args |-> args]

\* A caller about to evaluate apply_serial(fn, *args).
HandleEntry(fn, args) ==
    [pc |-> "new", fn |-> fn, args |-> args,
     obj |-> [raised |-> None], n_exec |-> 0, gets |-> 0, ret |-> << >>]

\* apply_serial(fn, *args): __init__ receives the function as the first of its
\* positional arguments (lines 195-198).
A_Construct ==
    /\ handle.pc = "new"
    /\ LET o == apply_serial_init(module_fn, <<handle.fn>> \o handle.args) IN
       handle' = [handle EXCEPT
                    !.obj = o,
                    !.pc = IF o.raised # None THEN "raised" ELSE "constructed"]
    /\ UNCHANGED <<harness_vars, thread_vars, client_vars, trial, module_fn, pool>>

\* A get() that marks the handle done although its function raised.
GetRaised_done(h) ==
    [h EXCEPT !.obj._done = TRUE,
              !.n_exec = @ + 1, !.gets = @ + 1, !.ret = << >>]

\* Lines 201-202 when self._fn raises: the function ran, the exception leaves
\* get() at line 202 and line 203 is not reached.
GetRaised(h) == [h EXCEPT !.n_exec = @ + 1, !.gets = @ + 1, !.ret = << >>]

\* apply_serial.get(), lines 200-205. The stored function may raise; the
\* exception leaves get() before _done is set. ret is what the call returned,
\* << >> when it raised.
A_Get ==
    /\ handle.pc = "constructed"
    /\ handle.gets < MaxGets
    /\ IF ~handle.obj._done
       THEN \E ok \in BOOLEAN :
              IF ok
              THEN LET v == App(handle.obj._fn, handle.obj._args) IN
                   handle' = [handle EXCEPT
                                !.obj._value = v, !.obj._done = TRUE,
                                !.n_exec = @ + 1, !.gets = @ + 1, !.ret = <<v>>]
              ELSE handle' = GetRaised(handle)
       ELSE handle' = [handle EXCEPT
                         !.gets = @ + 1, !.ret = <<handle.obj._value>>]
    /\ UNCHANGED <<harness_vars, thread_vars, client_vars, trial, module_fn, pool>>

\* The module never binds the name fn that line 196 reads. Module globals are
\* writable from outside: an importer may bind the name before the call, and
\* only then can an apply_serial object exist at all.
A_BindGlobal ==
    /\ handle.pc = "new"
    /\ module_fn = Unbound
    /\ module_fn' \in Fns
    /\ UNCHANGED <<harness_vars, thread_vars, client_vars, trial, handle, pool>>

\* One apply_serial object, in the module as shipped.
ApplyInit ==
    /\ n_exp = 0 /\ expparams_dtype = << >>
    /\ HarnessIdle /\ ThreadInit /\ ClientInit
    /\ trial = [pc |-> "none"]
    /\ module_fn = Unbound
    /\ \E fn \in Fns : \E args \in ArgLists : handle = HandleEntry(fn, args)
    /\ pool = NoPool

ApplyNext == A_BindGlobal \/ A_Construct \/ A_Get

ApplySpec == ApplyInit /\ [][ApplyNext]_vars

\* ------------------------------------------- perf_test under a parallel apply
\* perf_test_multiple hands every trial to apply(); with a parallel apply the
\* calls of perf_test run side by side.  Each call is a frame with its own
\* locals (performance, updater, heuristic, idx_exp); the objects it builds live
\* in a heap shared by the workers and are reachable only through references.

\* A frame that has not yet executed a statement.
Frame == [pc |-> "alloc", idx_exp |-> FirstExp,
          performance |-> 0, updater |-> 0, heuristic |-> 0]

\* A hoisted construction: every call is handed the first updater ever built.
NewUpdater_shared(heap, k) ==
    IF heap = << >>
    THEN [heap |-> <<[creator |-> k, built_from |-> <<"model", "n_particles", "prior">>,
                      callers |-> {}, n_updates |-> 0]>>,
          ref |-> 1]
    ELSE [heap |-> heap, ref |-> 1]

\* updater = SMCUpdater(model, n_particles, prior): a fresh object per call.
NewUpdater(heap, k) ==
    [heap |-> Append(heap, [creator |-> k,
                            built_from |-> <<"model", "n_particles", "prior">>,
                            callers |-> {}, n_updates |-> 0]),
     ref |-> Len(heap) + 1]

\* performance = np.zeros(...); updater = ...; heuristic = heuristic_class(updater)
Q_Alloc(k) ==
    /\ k \in DOMAIN pool.runs
    /\ pool.runs[k].pc = "alloc"
    /\ LET u == NewUpdater(pool.updaters, k)
           a == Len(pool.arrays) + 1
           h == Len(pool.heuristics) + 1
       IN pool' = [pool EXCEPT
              !.arrays = Append(@, [creator |-> k, writers |-> {}, written |-> 0]),
              !.updaters = u.heap,
              !.heuristics = Append(@, [creator |-> k, updater |-> u.ref,
                                        callers |-> {}]),
              !.runs[k] = [@ EXCEPT !.pc = "heuristic", !.performance = a,
                                    !.updater = u.ref, !.heuristic = h]]
    /\ UNCHANGED <<harness_vars, thread_vars, client_vars, trial, module_fn, handle>>

\* for idx_exp in range(n_exp): expparams = heuristic()
Q_Heuristic(k) ==
    /\ k \in DOMAIN pool.runs
    /\ pool.runs[k].pc = "heuristic"
    /\ IF pool.runs[k].idx_exp < n_exp
       THEN pool' = [pool EXCEPT
                !.heuristics[pool.runs[k].heuristic].callers = @ \cup {k},
                !.runs[k].pc = "update"]
       ELSE pool' = [pool EXCEPT !.runs[k].pc = "returned"]
    /\ UNCHANGED <<harness_vars, thread_vars, client_vars, trial, module_fn, handle>>

\* datum = true_model.simulate_experiment(...); updater.update(datum, expparams)
Q_Update(k) ==
    /\ k \in DOMAIN pool.runs
    /\ pool.runs[k].pc = "update"
    /\ pool' = [pool EXCEPT
           !.updaters[pool.runs[k].updater] =
               [@ EXCEPT !.callers = @ \cup {k}, !.n_updates = @ + 1],
           !.runs[k].pc = "store"]
    /\ UNCHANGED <<harness_vars, thread_vars, client_vars, trial, module_fn, handle>>

\* performance[idx_exp][...] = ...
Q_Store(k) ==
    /\ k \in DOMAIN pool.runs
    /\ pool.runs[k].pc = "store"
    /\ pool' = [pool EXCEPT
           !.arrays[pool.runs[k].performance] =
               [@ EXCEPT !.writers = @ \cup {k}, !.written = @ + 1],
           !.runs[k] = [@ EXCEPT !.idx_exp = @ + 1, !.pc = "heuristic"]]
    /\ UNCHANGED <<harness_vars, thread_vars, client_vars, trial, module_fn, handle>>

\* The workers hold one perf_test call per trial, none of them started.
ParInit ==
    /\ ThreadInit /\ ClientInit
    /\ \E n \in 1..MaxTrials : \E e \in 1..MaxExp :
          /\ n_trials = n
          /\ n_exp = e
          /\ pool = [NoPool EXCEPT !.runs = [k \in 1..n |-> Frame]]
    /\ expparams_dtype = << >>
    /\ apply = "engine" /\ tskmon_client = None
    /\ hpc = "idle"
    /\ task = Unbound /\ thread = Unbound /\ wake_event = Unbound
    /\ results = << >> /\ idx = 0 /\ performance = << >> /\ herr = None
    /\ n_get = 0 /\ retrieved = 0
    /\ trial = [pc |-> "none"]
    /\ module_fn = "f"
    /\ handle = [pc |-> "none"]

ParNext ==
    \E k \in 1..MaxTrials : Q_Alloc(k) \/ Q_Heuristic(k) \/ Q_Update(k) \/ Q_Store(k)

ParSpec == ParInit /\ [][ParNext]_vars

\* What the caller of perf_test_multiple holds afterwards: the array of line
\* 261 after a return, nothing after an exception (performance is a local).
CallerReceives == IF hpc = "returned" THEN performance ELSE << >>

\* =================================================================== claims
\* The rows perf_test_multiple holds for trial i once its result is stored, if
\* nothing is lost: the record array the i-th handle returned.
Retrieved(i) == TrialResult(results[i + 1].engine_trial, n_exp, expparams_dtype)

\* Every trial was dispatched and no trial failed at get().
AllTrialsSucceed == Len(results) = n_trials /\ herr # "TrialError"

\* C1: called without a progress client (tskmon_client = None) and with every
\* trial succeeding, perf_test_multiple reaches no error state in the collection
\* loop or the teardown, and what it returns has n_trials rows of n_exp records,
\* row idx being the result of the idx-th handle.
C1_NoClientReturnsAllRows ==
    (tskmon_client = None /\ AllTrialsSucceed) =>
        /\ hpc # "raised"
        /\ hpc = "returned" =>
              /\ DOMAIN performance = 0..(n_trials - 1)
              /\ \A i \in DOMAIN performance :
                    /\ DOMAIN performance[i] = 1..n_exp
                    /\ \A e \in 1..n_exp :
                          \A f \in Range(PERFORMANCE_DTYPE) :
                             performance[i][e][f] = Retrieved(i)[e][f]

\* C3: every stored row of the multi-trial result has the schema of a row of
\* perf_test's result (loss, resample_count, elapsed_time, outcome and one field
\* per entry of expparams_dtype), and no field of a retrieved trial result is
\* lost on storage.
C3_RowsKeepSingleTrialSchema ==
    \A i \in 0..(retrieved - 1) :
        /\ \A e \in 1..n_exp :
              DOMAIN performance[i][e] = Range(perf_test_dtype(expparams_dtype))
        /\ performance[i] = Retrieved(i)

\* C5: the values passed to task.update never decrease, and each is at least 1,
\* at most n_trials and at most the number of results retrieved so far.
C5_ProgressMonotoneBounded ==
    \A k \in 1..Len(updates) :
        /\ updates[k] >= 1
        /\ updates[k] <= n_trials
        /\ updates[k] <= retrieved
        /\ k > 1 => updates[k - 1] <= updates[k]

\* The notifier delivered two different counts, the harness still collecting
\* when the first one was delivered.
C5_Witness ==
    /\ Len(updates) >= 2
    /\ updates[1] < updates[2]
    /\ updates[2] = retrieved

\* The harness has set done and signalled the wake event (lines 255-256).
ShutdownSignalled == thread = Obj /\ hpc \in {"delete", "return", "returned"}

\* C6: after perf_test_multiple has set done and signalled the wake event, the
\* notifier is never left blocked in wait() on a cleared event with done set:
\* nothing would set the event again, so it would wait forever.
C6_ShutdownNeverLost ==
    ShutdownSignalled => ~(tpc = "wait" /\ ~wake_flag)

\* C7: no step of WebProgressThread.run writes progress, dirty, done or the wake
\* event.
C7_NotifierOnlyReads ==
    [][Notifier => UNCHANGED <<progress, dirty, done, wake_flag>>]_vars

\* C8: when a trial raises at get() while a progress client is active, the error
\* leaves perf_test_multiple only after the notifier was told to stop and the
\* progress task was deleted.
C8_CleanupOnTrialError ==
    (hpc = "raised" /\ herr = "TrialError" /\ thread = Obj) =>
        /\ done
        /\ task_state = "deleted"

\* C9: with a progress client, no failure of the client aborts the trial loop:
\* if every trial succeeds the harness reaches no error state, is never blocked
\* before it returns, and returns with all n_trials results retrieved and
\* stored; the notifier thread ends only at its test of done, never through
\* a failing task.update.
C9_ClientFailureNeverAborts ==
    /\ (tskmon_client = Obj /\ AllTrialsSucceed) =>
          /\ hpc # "raised"
          /\ hpc # "returned" => ENABLED Harness
          /\ hpc = "returned" =>
                /\ retrieved = n_trials
                /\ \A i \in 0..(n_trials - 1) : \A f \in Range(PERFORMANCE_DTYPE) :
                      \A e \in 1..n_exp : performance[i][e][f] = Retrieved(i)[e][f]
    /\ tpc = "returned" => done

\* task.update failed in the notifier and task.delete failed at teardown, and
\* the harness returned all results of at least one trial.
C9_Witness ==
    /\ hpc = "returned" /\ n_trials >= 1 /\ retrieved = n_trials
    /\ n_fail > 0
    /\ task = Obj /\ task_state = "created"

\* C2: constructing apply_serial with a function and arguments succeeds and
\* stores that function, and get() returns the value of that function applied to
\* those arguments.
C2_ApplySerialContract ==
    handle.pc # "new" =>
        /\ handle.pc = "constructed"
        /\ handle.obj._fn = handle.fn
        /\ handle.ret # << >> => handle.ret[1] = App(handle.fn, handle.args)

\* The operation that follows call k - 1 of a trial, and its experiment index.
Cycle == <<"heuristic", "simulate", "update", "write">>
ExpectedOp(k) == Cycle[((k - 1) % Len(Cycle)) + 1]
ExpectedExp(k) == (k - 1) \div Len(Cycle)

\* C4: the calls of one perf_test trial are, for i = 0, 1, ..., heuristic i,
\* simulation i, update i, write of record i, in this order and one at a time;
\* simulation i gets the true parameters and the heuristic's parameters, update
\* i gets exactly the datum of simulation i and the parameters of heuristic i;
\* a trial that returns has made exactly n_exp update calls.
C4_StrictlySequentialUpdates ==
    LET c == trial.calls IN
    /\ \A k \in 1..Len(c) :
          /\ c[k].op = ExpectedOp(k)
          /\ c[k].i = ExpectedExp(k)
          /\ c[k].op = "simulate" =>
                c[k].expparams = c[k - 1].ret /\ c[k].mps = trial.true_mps
          /\ c[k].op = "update" =>
                c[k].datum = c[k - 1].ret /\ c[k].expparams = c[k - 2].ret
    /\ trial.pc = "returned" =>
          /\ Len(c) = Len(Cycle) * n_exp
          /\ trial.updater.n_updates = n_exp

\* A trial of two experiments returned, having used different experiment
\* parameters and seen different data in them.
C4_Witness ==
    /\ trial.pc = "returned" /\ n_exp = 2
    /\ Len(trial.calls) = 8
    /\ trial.calls[3].expparams # trial.calls[7].expparams
    /\ trial.calls[3].datum # trial.calls[7].datum

\* C10: with true_mps of more than one row, perf_test makes no heuristic call,
\* no simulation and no update call (it raises before any experiment).
C10_MultiRowRejectedBeforeExperiments ==
    (trial.true_mps_given /\ Len(trial.true_mps) > 1) => trial.calls = << >>

\* (mean - true)^T Q (mean - true) for one difference vector d.
QuadForm(d, Q) ==
    SumTo([i \in DOMAIN Q |->
             SumTo([j \in DOMAIN Q |-> d[i] * Q[i][j] * d[j]], Len(Q))], Len(Q))

\* C11: with one true parameter vector, for every experiment index the store of
\* the loss succeeds and the loss stored in the record equals the quadratic form
\* (mean - true)^T Q (mean - true) of the mean right after that update, for
\* every weight matrix Q.
C11_LossIsQuadraticForm ==
    Len(trial.true_mps) = 1 =>
        /\ trial.err # "ValueError"
        /\ (trial.pc \in {"heuristic", "returned"} /\ trial.idx_exp > FirstExp) =>
              trial.performance[trial.idx_exp]["loss"]
                 = QuadForm(trial.delta[1], trial.Q)

\* C12: a failing trial's error leaves perf_test_multiple at the get() that
\* retrieves it, and the results of the trials retrieved successfully before it
\* are not lost: the caller still holds them.
C12_TrialErrorMasksNoResult ==
    (hpc = "raised" /\ herr = "TrialError") =>
        /\ n_get = retrieved + 1
        /\ \A i \in 0..(retrieved - 1) :
              /\ i \in DOMAIN CallerReceives
              /\ CallerReceives[i] = performance[i]

\* The update call of the experiment that wrote row i (rows counted from 1).
UpdateCall(i) == trial.calls[Len(Cycle) * (i - 1) + 3]

\* C13: within a trial the stored resample_count never decreases from one record
\* to the next, and record i exceeds record i - 1 (0 before the first) by exactly
\* the number of resamples update i triggered.
C13_ResampleCountAccumulates ==
    trial.pc \notin {"defaults", "alloc"} =>
        \A i \in 1..trial.idx_exp :
            LET prev == IF i = 1 THEN 0
                        ELSE trial.performance[i - 1]["resample_count"]
                now == trial.performance[i]["resample_count"]
            IN /\ now >= prev
               /\ now = prev + UpdateCall(i).resamples

\* Two records written, the first update without a resample and the second
\* with one.
C13_Witness ==
    /\ trial.pc = "returned" /\ trial.idx_exp = 2
    /\ UpdateCall(1).resamples = 0 /\ UpdateCall(2).resamples = 1
    /\ trial.performance[1]["resample_count"] = 0
    /\ trial.performance[2]["resample_count"] = 1

\* C14: trials share no mutable state.  Every perf_test call that has passed
\* its construction statements created exactly one updater, built from the
\* model, n_particles and the prior, and one heuristic bound to that updater;
\* in every interleaving of the workers an updater is updated by the trial that
\* created it only, a heuristic is called by its own trial only, and a
\* performance array is written by the trial that allocated it only.
C14_TrialsShareNoMutableState ==
    /\ \A k \in DOMAIN pool.runs :
          LET made == {u \in DOMAIN pool.updaters : pool.updaters[u].creator = k}
              bound == {h \in DOMAIN pool.heuristics : pool.heuristics[h].creator = k}
              own == {a \in DOMAIN pool.arrays : pool.arrays[a].creator = k}
              f == pool.runs[k]
          IN IF f.pc = "alloc"
             THEN made = {} /\ bound = {} /\ own = {}
             ELSE /\ made = {f.updater} /\ bound = {f.heuristic}
                  /\ own = {f.performance}
                  /\ pool.updaters[f.updater].built_from
                        = <<"model", "n_particles", "prior">>
                  /\ pool.heuristics[f.heuristic].updater = f.updater
                  /\ pool.updaters[f.updater].n_updates
                        = f.idx_exp + (IF f.pc = "store" THEN 1 ELSE 0)
                  /\ pool.arrays[f.performance].written = f.idx_exp
    /\ \A u \in DOMAIN pool.updaters :
          pool.updaters[u].callers \subseteq {pool.updaters[u].creator}
    /\ \A h \in DOMAIN pool.heuristics :
          pool.heuristics[h].callers \subseteq {pool.heuristics[h].creator}
    /\ \A a \in DOMAIN pool.arrays :
          pool.arrays[a].writers \subseteq {pool.arrays[a].creator}

\* Two trials ran interleaved to the end: the second started before the first
\* finished, and both updated and wrote.
C14_Witness ==
    /\ DOMAIN pool.runs = {1, 2}
    /\ \A k \in {1, 2} : pool.runs[k].pc = "returned" /\ pool.runs[k].idx_exp = 2
    /\ pool.runs[1].updater = 2 /\ pool.runs[2].updater = 1
    /\ pool.updaters[1].callers = {2} /\ pool.updaters[2].callers = {1}
    /\ pool.arrays[1].writers = {2} /\ pool.arrays[2].writers = {1}

\* C15: the harness's count is delivered.  Once the notifier has stopped, no
\* call of task.update having failed, every progress value the harness posted
\* has been followed by a task.update with a value at least as large; in
\* particular the final count n_trials reached the collaborator.
C15_FinalCountDelivered ==
    (tpc = "returned" /\ n_fail = 0 /\ hpc = "returned" /\ herr = None) =>
        \A k \in 1..progress : \E u \in DOMAIN updates : updates[u] >= k

\* C16: perf_test_multiple dispatches all n_trials trials through apply before
\* it retrieves any result: no get() has happened while a trial is still to be
\* dispatched.  The results are then retrieved in dispatch order, one get() per
\* handle: the gets counted so far are those of handles 0..n_get-1, row i of a
\* retrieved handle holds what the i-th dispatched handle returned, rows of
\* handles not yet retrieved are untouched, and on return every handle has had
\* its one get().
C16_DispatchAllThenGetInOrder ==
    /\ Len(results) < n_trials => n_get = 0
    /\ hpc \in {"tskmon", "start", "dispatch"} => n_get = 0
    /\ n_get > 0 => Len(results) = n_trials
    /\ n_get <= n_trials
    /\ n_get \in {idx, idx + 1}
    /\ hpc = "collect" => n_get = idx
    /\ retrieved \in {n_get, n_get - 1}
    /\ \A i \in DOMAIN performance :
          IF i < retrieved
          THEN performance[i]
                  = AssignRows(perf_test_multiple_dtype(expparams_dtype), Retrieved(i))
          ELSE performance[i]
                  = Zeros(n_exp, perf_test_multiple_dtype(expparams_dtype))
    /\ hpc = "returned" => n_get = n_trials /\ retrieved = n_trials

\* Two trials were dispatched, then retrieved one after the other, and the
\* function returned their two different results.
C16_Witness ==
    /\ hpc = "returned" /\ n_trials = 2 /\ Len(results) = 2
    /\ n_get = 2 /\ retrieved = 2
    /\ performance[0] # performance[1]
    /\ performance[0] = AssignRows(perf_test_multiple_dtype(expparams_dtype), Retrieved(0))

\* The simulate_experiment calls made so far, in order.
SimulateCalls == SelectSeq(trial.calls, LAMBDA c : c.op = "simulate")

\* C17: the true parameters of a trial are fixed once before the first
\* experiment: the supplied true_mps is never replaced, a missing one becomes a
\* single sample (one row) and does not change afterwards.  Every simulation
\* is run on that same value and every loss is computed from the difference to
\* that same value.  The updater is never passed the true parameters: an update
\* call carries the simulated datum and the experiment parameters only.
C17_TrueParamsFixedAndHidden ==
    /\ [](/\ (trial.pc # "defaults" /\ ~trial.true_mps_given) => Len(trial.true_mps) = 1
          /\ \A k \in DOMAIN SimulateCalls : SimulateCalls[k].mps = trial.true_mps
          /\ (trial.pc = "store" /\ trial.err = None) =>
                trial.delta = Delta(trial.updater.mean, trial.true_mps)
          /\ \A k \in DOMAIN trial.calls :
                trial.calls[k].op = "update" =>
                    /\ "mps" \notin DOMAIN trial.calls[k]
                    /\ trial.calls[k].datum = trial.calls[k - 1].ret
                    /\ trial.calls[k].expparams = trial.calls[k - 1].expparams)
    /\ [][(trial.true_mps_given \/ trial.pc # "defaults")
             => trial'.true_mps = trial.true_mps]_vars

\* A trial that sampled its own true parameters ran two experiments on them
\* while the updater's estimate was somewhere else, and returned.
C17_Witness ==
    /\ trial.pc = "returned" /\ ~trial.true_mps_given
    /\ Len(SimulateCalls) = 2
    /\ SimulateCalls[1].mps = SimulateCalls[2].mps
    /\ <<trial.updater.mean>> # trial.true_mps

\* perf_test is inside its loop or past it, so its record array exists.
ArrayAllocated == trial.pc \notin {"none", "defaults", "alloc"}

\* C18: the performance records of a trial are append-only by experiment
\* index.  A step of iteration i changes no row other than row i (rows are
\* counted from 1 in the model, so iteration idx_exp owns row idx_exp + 1):
\* rows written by earlier iterations stay as they are through iteration i and
\* all later ones, and every row after row i still holds its initial all-zero
\* value, as does row i itself until iteration i stores into it.
C18_RecordsAppendOnly ==
    /\ [](ArrayAllocated =>
            /\ Len(trial.performance) = n_exp
            /\ \A j \in 1..n_exp :
                  (j > trial.idx_exp + 1 \/ (j = trial.idx_exp + 1 /\ trial.pc # "raised"))
                     => trial.performance[j] = ZeroRow(perf_test_dtype(expparams_dtype)))
    /\ [][ArrayAllocated =>
            \A j \in 1..n_exp :
                j # trial.idx_exp + 1 => trial'.performance[j] = trial.performance[j]]_vars

\* The second iteration has stored its row next to the non-zero row of the
\* first one, and the trial returned.
C18_Witness ==
    /\ trial.pc = "returned" /\ n_exp = 2 /\ trial.idx_exp = 2
    /\ \A j \in 1..2 :
          trial.performance[j] # ZeroRow(perf_test_dtype(expparams_dtype))
    /\ trial.performance[1] # trial.performance[2]

LastUpdateCall == trial.calls[Len(trial.calls)]

\* C20: on the trial's logical clock the elapsed_time of record i covers the
\* updater.update call of experiment i only.  The timer is started
\* immediately before the update (no tick lies between start and the call),
\* it is stopped before est_mean() and the loss computation run, and once it
\* is stopped every read of delta_t gives stop time minus start time, which is
\* the time the update took, however much later the read happens; that value
\* is what each written record holds.
C20_ElapsedTimeCoversUpdateOnly ==
    /\ trial.pc = "update" => trial.t._toc = << >> /\ trial.t._tic = trial.clock
    /\ trial.pc \in {"est_mean", "store"} =>
          /\ trial.t._toc # << >>
          /\ trial.t._toc[1] - trial.t._tic = LastUpdateCall.took
          /\ \A later \in trial.clock..(trial.clock + 2) :
                delta_t(trial.t, later) = LastUpdateCall.took
    /\ trial.pc = "store" => trial.clock > trial.t._toc[1]
    /\ ArrayAllocated =>
          \A i \in 1..trial.idx_exp :
              trial.performance[i]["elapsed_time"] = UpdateCall(i).took

\* Two records were written, one for a short update and one for a long one,
\* each read after est_mean() had already moved the clock on.
C20_Witness ==
    /\ trial.pc = "returned" /\ trial.idx_exp = 2
    /\ trial.performance[1]["elapsed_time"] = UpdateTicks(0)
    /\ trial.performance[2]["elapsed_time"] = UpdateTicks(1)
    /\ trial.clock > trial.t._toc[1]

====
